---------------------------- MODULE Spec2Model ----------------------------
(* The Hyena MCP server (mcp_server/hyena_mcp/server.py): a stdio tool and  *)
(* resource adapter that builds a hyena command line for every call, runs   *)
(* the binary under a 60 second budget and formats its exit into the value  *)
(* handed back to the caller.  The hyena engine itself is not part of the   *)
(* adapter; its scratch and derived logs are modelled from its              *)
(* specification (append under an exclusive lock, newline commits).         *)
(*                                                                          *)
(* Text is modelled as a sequence of one-character strings, so that strip,  *)
(* split, str() and the f-string of _run_hyena are computed, not assumed.   *)
EXTENDS Integers, Sequences, FiniteSets, TLC

(* ------------------------------ bounds -------------------------------- *)

\* tool calls made by one caller
MaxCalls == 2

(* ------------------------------ text ---------------------------------- *)

Digits == <<"0", "1", "2", "3", "4", "5", "6", "7", "8", "9">>

RECURSIVE NatStr(_)
NatStr(n) == IF n < 10 THEN <<Digits[n + 1]>>
             ELSE NatStr(n \div 10) \o <<Digits[(n % 10) + 1]>>

\* Python str(int)
str(n) == IF n < 0 THEN <<"-">> \o NatStr(0 - n) ELSE NatStr(n)

\* the characters str.strip() removes
Whitespace == {" ", "\n", "\t"}

RECURSIVE lstrip(_)
lstrip(s) == IF s # <<>> /\ Head(s) \in Whitespace THEN lstrip(Tail(s)) ELSE s

RECURSIVE rstrip(_)
rstrip(s) == IF s # <<>> /\ s[Len(s)] \in Whitespace
             THEN rstrip(SubSeq(s, 1, Len(s) - 1)) ELSE s

\* Python str.strip()
strip(s) == rstrip(lstrip(s))

\* Python str.split(sep) for a one-character separator: "a,".split(",") is
\* ["a", ""], and "".split(",") is [""]
RECURSIVE split(_, _)
split(s, sep) ==
    IF \A i \in 1..Len(s) : s[i] # sep THEN <<s>>
    ELSE LET i == CHOOSE j \in 1..Len(s) :
                      s[j] = sep /\ \A k \in 1..(j - 1) : s[k] # sep
         IN <<SubSeq(s, 1, i - 1)>> \o split(SubSeq(s, i + 1, Len(s)), sep)

StartsWith(s, p) == Len(p) <= Len(s) /\ SubSeq(s, 1, Len(p)) = p

Contains(s, p) == \E i \in 0..(Len(s) - Len(p)) : SubSeq(s, i + 1, i + Len(p)) = p

(* --------------------------- literal tokens --------------------------- *)

T_hyena   == <<"h", "y", "e", "n", "a">>
T_root    == <<"-", "-", "r", "o", "o", "t">>
T_read    == <<"r", "e", "a", "d">>
T_context == <<"c", "o", "n", "t", "e", "x", "t">>
T_derived == <<"d", "e", "r", "i", "v", "e", "d">>
T_raw     == <<"r", "a", "w">>
T_scratch == <<"s", "c", "r", "a", "t", "c", "h">>
T_search  == <<"s", "e", "a", "r", "c", "h">>
T_write   == <<"w", "r", "i", "t", "e">>
T_ingest  == <<"i", "n", "g", "e", "s", "t">>
T_max_lines == <<"-", "-", "m", "a", "x", "-", "l", "i", "n", "e", "s">>
T_path    == <<"-", "-", "p", "a", "t", "h">>
T_max     == <<"-", "-", "m", "a", "x">>
T_scope_contains ==
    <<"-", "-", "s", "c", "o", "p", "e", "-", "c", "o", "n", "t", "a", "i", "n", "s">>
T_scope   == <<"-", "-", "s", "c", "o", "p", "e">>
T_include_scratch ==
    <<"-", "-", "i", "n", "c", "l", "u", "d", "e", "-", "s", "c", "r", "a", "t", "c", "h">>
T_kind    == <<"-", "-", "k", "i", "n", "d">>
T_semantic_dedupe ==
    <<"-", "-", "s", "e", "m", "a", "n", "t", "i", "c", "-", "d", "e", "d", "u", "p", "e">>
T_only    == <<"-", "-", "o", "n", "l", "y">>
T_note    == <<"n", "o", "t", "e">>
T_Error_exit == <<"E", "r", "r", "o", "r", " ", "(", "e", "x", "i", "t", " ">>
T_close   == <<")", ":", " ">>

(* --------------------- the adapter's pure functions ------------------- *)

\* _root(): the workspace root taken from HYENA_ROOT
_root == <<"/", "w">>

\* _hyena_bin(): the binary taken from HYENA_BIN, "hyena" by default
_hyena_bin == T_hyena

\* _run_hyena, the command line: [_hyena_bin(), "--root", str(root), *args]
_run_hyena_cmd(args, root) == <<_hyena_bin, T_root, root>> \o args

\* _run_hyena, the value returned for an exit (returncode, stdout, stderr)
_run_hyena_result_swallow(returncode, stdout, stderr) == strip(stdout)
_run_hyena_result(returncode, stdout, stderr) ==
    LET out == strip(stdout)
        err == strip(stderr)
    IN IF returncode # 0 /\ err # <<>>
       THEN IF out # <<>>
            THEN T_Error_exit \o str(returncode) \o T_close \o err \o <<"\n">> \o out
            ELSE T_Error_exit \o str(returncode) \o T_close \o err
       ELSE out


(* ------------- the command line each tool hands to _run_hyena ---------- *)

\* default of hyena_read_context(max_lines)
DefaultMaxLines == 50
\* default of hyena_read_derived(max_entries)
DefaultDerivedMax == 100
\* default of hyena_read_scratch(max_entries)
DefaultScratchMax == 50
\* resource_context reads with max_lines=80
ResourceContextLines == 80
\* resource_derived reads with max_entries=100
ResourceDerivedMax == 100
\* resource_scratch reads with max_entries=50
ResourceScratchMax == 50

hyena_read_context_args(path, max_lines) ==
    <<T_read, T_context, T_max_lines, str(max_lines)>>
    \o (IF path # <<>> THEN <<T_path, path>> ELSE <<>>)

hyena_read_derived_unbounded(scope_contains, max_entries) ==
    IF scope_contains # <<>>
    THEN <<T_read, T_derived, T_scope_contains, scope_contains>>
    ELSE <<T_read, T_derived, T_max, str(max_entries)>>
hyena_read_derived_args(scope_contains, max_entries) ==
    <<T_read, T_derived, T_max, str(max_entries)>>
    \o (IF scope_contains # <<>> THEN <<T_scope_contains, scope_contains>> ELSE <<>>)

hyena_read_raw_args(scope) ==
    <<T_read, T_raw>> \o (IF scope # <<>> THEN <<T_scope, scope>> ELSE <<>>)

hyena_read_scratch_args_write(max_entries) ==
    <<T_write, T_scratch, str(max_entries)>>
hyena_read_scratch_args(max_entries) ==
    <<T_read, T_scratch, T_max, str(max_entries)>>

hyena_search_args(query, include_scratch) ==
    <<T_search, query>> \o (IF include_scratch THEN <<T_include_scratch>> ELSE <<>>)

hyena_write_scratch_args(text, kind) ==
    <<T_write, T_scratch, text, T_kind, kind>>

\* the loop of hyena_ingest over only_paths.split(","): strip, skip blanks
RECURSIVE only_args(_)
only_args(parts) ==
    IF parts = <<>> THEN <<>>
    ELSE LET p == strip(Head(parts))
         IN (IF p # <<>> THEN <<T_only, p>> ELSE <<>>) \o only_args(Tail(parts))

hyena_ingest_args(semantic_dedupe, only_paths) ==
    <<T_ingest>>
    \o (IF semantic_dedupe THEN <<T_semantic_dedupe>> ELSE <<>>)
    \o (IF only_paths # <<>> THEN only_args(split(only_paths, ",")) ELSE <<>>)

(* --------------------- tools and resources registered ------------------ *)

ToolRegistry_unregistered ==
    {"hyena_read_derived", "hyena_read_raw", "hyena_read_scratch",
     "hyena_search", "hyena_write_scratch", "hyena_ingest"}
\* the functions decorated @mcp.tool()
ToolRegistry ==
    {"hyena_read_context", "hyena_read_derived", "hyena_read_raw",
     "hyena_read_scratch", "hyena_search", "hyena_write_scratch", "hyena_ingest"}

\* the functions decorated @mcp.resource(uri)
ResourceRegistry == {"hyena://context", "hyena://derived", "hyena://scratch"}

(* ------------------------------- state -------------------------------- *)

\* independent agents, each with its own server process on the same root
Callers == {"c1", "c2"}

\* the fixed budget of subprocess.run, in seconds
TIMEOUT == 60

\* granularity of the model's clock: half the budget
TickStep == TIMEOUT \div 2

VARIABLES
    session,    \* per caller: "new" or "ready" (initialize done)
    listed,     \* per caller: the answer to the last list_tools/list_resources
    pc,         \* per caller: "idle", "running" (inside _run_hyena), "returned"
    tool,       \* per caller: the tool or resource of the current call
    args,       \* per caller: the arguments the caller gave
    cmd,        \* per caller: the command line handed to subprocess.run
    proc,       \* per caller: the hyena process of the current call
    elapsed,    \* per caller: seconds since the process was started
    outcome,    \* per caller: "none", "value" (a string returned), "raised"
    result,     \* per caller: the string returned
    ncalls,     \* per caller: calls made so far
    spawned,    \* per caller: hyena processes started by the current call
    failed,     \* per caller: some finished call reported a failure
    nwrites,    \* hyena_write_scratch calls made so far, all callers
    scratch,    \* the scratch log file: its lines, the last one possibly open
    derived,    \* the derived log file: number of atoms
    lock        \* holder of the scratch log's exclusive lock, or "free"

vars == <<session, listed, pc, tool, args, cmd, proc, elapsed, outcome, result,
          ncalls, spawned, failed, nwrites, scratch, derived, lock>>

callVars == <<tool, args, cmd, ncalls, spawned, nwrites>>
engineVars == <<scratch, derived, lock>>
mcpVars == <<session, listed>>

NoArgs == [path |-> <<>>, max_lines |-> 0, scope_contains |-> <<>>,
           max_entries |-> 0, scope |-> <<>>, query |-> <<>>,
           include_scratch |-> FALSE, text |-> <<>>, kind |-> <<>>,
           semantic_dedupe |-> FALSE, only_paths |-> <<>>]

NoProc == [stage |-> "none", returncode |-> 0, stdout |-> <<>>, stderr |-> <<>>]

NoListing == [what |-> "none", names |-> {}]

\* the id of caller c's current call
CallId(c) == <<c, ncalls[c]>>

ReadTools == {"hyena_read_context", "hyena_read_derived", "hyena_read_raw",
              "hyena_read_scratch", "hyena_search"} \cup ResourceRegistry

(* --------------------------- argument values --------------------------- *)

Strs == {<<>>, <<"a">>, T_max, T_include_scratch, T_write}

Kinds == {T_note, <<"a">>}

IntArgs == {-1, 0, 7}

\* only_paths values: none, one path, two paths, blank entries, padded entries
OnlyPaths == {<<>>, <<"a">>, <<"a", ",", "b">>, <<",">>, <<" ">>, <<" ", ",", " ">>,
              <<"a", ",">>, <<",", "a">>, <<" ", "a">>, <<"a", ",", " ", "b">>}

\* what a hyena process prints
Outs == {<<>>, <<"o", "k", "\n">>}

\* the diagnostic hyena writes to standard error on failure
Diagnostic == <<"e", "r", "r", "\n">>

FailCodes == {1, 2}

(* ------------------------------- Init ---------------------------------- *)

Init ==
    /\ session = [c \in Callers |-> "new"]
    /\ listed = [c \in Callers |-> NoListing]
    /\ pc = [c \in Callers |-> "idle"]
    /\ tool = [c \in Callers |-> "none"]
    /\ args = [c \in Callers |-> NoArgs]
    /\ cmd = [c \in Callers |-> <<>>]
    /\ proc = [c \in Callers |-> NoProc]
    /\ elapsed = [c \in Callers |-> 0]
    /\ outcome = [c \in Callers |-> "none"]
    /\ result = [c \in Callers |-> <<>>]
    /\ ncalls = [c \in Callers |-> 0]
    /\ spawned = [c \in Callers |-> 0]
    /\ failed = [c \in Callers |-> FALSE]
    /\ nwrites = 0
    /\ scratch = <<>>
    /\ derived = 0
    /\ lock = "free"

(* ------------------------- the MCP session ----------------------------- *)

\* session.initialize()
Initialize(c) ==
    /\ session[c] = "new"
    /\ session' = [session EXCEPT ![c] = "ready"]
    /\ UNCHANGED <<listed, pc, proc, elapsed, outcome, result, failed,
                   callVars, engineVars>>

\* session.list_tools(): answered from the registry; a tool function that is
\* running blocks the server, so the answer comes when none is
ListTools(c) ==
    /\ session[c] = "ready"
    /\ pc[c] # "running"
    /\ listed' = [listed EXCEPT ![c] = [what |-> "tools", names |-> ToolRegistry]]
    /\ UNCHANGED <<session, pc, proc, elapsed, outcome, result, failed,
                   callVars, engineVars>>

\* session.list_resources()
ListResources(c) ==
    /\ session[c] = "ready"
    /\ pc[c] # "running"
    /\ listed' = [listed EXCEPT ![c] =
                     [what |-> "resources", names |-> ResourceRegistry]]
    /\ UNCHANGED <<session, pc, proc, elapsed, outcome, result, failed,
                   callVars, engineVars>>

(* ----------------------------- tool calls ------------------------------ *)

\* a tool function up to subprocess.run: the command line is built and one
\* hyena process is started with the clock at zero
StartCall(c, t, in, a) ==
    /\ session[c] = "ready"
    /\ pc[c] # "running"
    /\ ncalls[c] < MaxCalls
    /\ pc' = [pc EXCEPT ![c] = "running"]
    /\ tool' = [tool EXCEPT ![c] = t]
    /\ args' = [args EXCEPT ![c] = in]
    /\ cmd' = [cmd EXCEPT ![c] = _run_hyena_cmd(a, _root)]
    /\ proc' = [proc EXCEPT ![c] = [NoProc EXCEPT !.stage = "started"]]
    /\ elapsed' = [elapsed EXCEPT ![c] = 0]
    /\ outcome' = [outcome EXCEPT ![c] = "none"]
    /\ result' = [result EXCEPT ![c] = <<>>]
    /\ ncalls' = [ncalls EXCEPT ![c] = @ + 1]
    /\ spawned' = [spawned EXCEPT ![c] = 1]
    /\ nwrites' = IF t = "hyena_write_scratch" THEN nwrites + 1 ELSE nwrites
    /\ listed' = [listed EXCEPT ![c] = NoListing]
    /\ UNCHANGED <<session, failed, engineVars>>

hyena_read_context(c, path, max_lines) ==
    StartCall(c, "hyena_read_context",
              [NoArgs EXCEPT !.path = path, !.max_lines = max_lines],
              hyena_read_context_args(path, max_lines))

hyena_read_derived(c, scope_contains, max_entries) ==
    StartCall(c, "hyena_read_derived",
              [NoArgs EXCEPT !.scope_contains = scope_contains,
                             !.max_entries = max_entries],
              hyena_read_derived_args(scope_contains, max_entries))

hyena_read_raw(c, scope) ==
    StartCall(c, "hyena_read_raw", [NoArgs EXCEPT !.scope = scope],
              hyena_read_raw_args(scope))

hyena_read_scratch(c, max_entries) ==
    StartCall(c, "hyena_read_scratch", [NoArgs EXCEPT !.max_entries = max_entries],
              hyena_read_scratch_args(max_entries))

hyena_search(c, query, include_scratch) ==
    StartCall(c, "hyena_search",
              [NoArgs EXCEPT !.query = query, !.include_scratch = include_scratch],
              hyena_search_args(query, include_scratch))

hyena_write_scratch(c, text, kind) ==
    StartCall(c, "hyena_write_scratch",
              [NoArgs EXCEPT !.text = text, !.kind = kind],
              hyena_write_scratch_args(text, kind))

hyena_ingest(c, semantic_dedupe, only_paths) ==
    StartCall(c, "hyena_ingest",
              [NoArgs EXCEPT !.semantic_dedupe = semantic_dedupe,
                             !.only_paths = only_paths],
              hyena_ingest_args(semantic_dedupe, only_paths))

resource_context(c) ==
    StartCall(c, "hyena://context",
              [NoArgs EXCEPT !.max_lines = ResourceContextLines],
              hyena_read_context_args(<<>>, ResourceContextLines))

resource_derived(c) ==
    StartCall(c, "hyena://derived",
              [NoArgs EXCEPT !.max_entries = ResourceDerivedMax],
              hyena_read_derived_args(<<>>, ResourceDerivedMax))

resource_scratch(c) ==
    StartCall(c, "hyena://scratch",
              [NoArgs EXCEPT !.max_entries = ResourceScratchMax],
              hyena_read_scratch_args(ResourceScratchMax))

(* --------------------- the hyena process (engine) ---------------------- *)

\* the command a hyena command line names: <bin> --root <root> <command> ...
EngineCommand(line) ==
    IF Len(line) >= 5 /\ line[4] = T_write /\ line[5] = T_scratch THEN "write_scratch"
    ELSE IF Len(line) >= 4 /\ line[4] = T_ingest THEN "ingest"
    ELSE IF Len(line) >= 4 /\ line[4] \in {T_read, T_search} THEN "read"
    ELSE "invalid"

Alive(c) == pc[c] = "running" /\ proc[c].stage \notin {"none", "exited", "killed"}

\* bytes of a record reach the end of the file: they extend an open last
\* line, or start a new one
AppendBody(log, id) ==
    IF log # <<>> /\ ~log[Len(log)].closed
    THEN [log EXCEPT ![Len(log)].parts = Append(@, id)]
    ELSE Append(log, [parts |-> <<id>>, closed |-> FALSE])

\* a newline reaches the end of the file: it closes the open last line, or is
\* an empty line of its own
AppendNewline(log) ==
    IF log # <<>> /\ ~log[Len(log)].closed
    THEN [log EXCEPT ![Len(log)].closed = TRUE]
    ELSE Append(log, [parts |-> <<>>, closed |-> TRUE])

\* Scratch Log.append: take the exclusive lock of the log file
AcquireLock(c) ==
    /\ Alive(c)
    /\ proc[c].stage = "started"
    /\ EngineCommand(cmd[c]) = "write_scratch"
    /\ lock = "free"
    /\ lock' = c
    /\ proc' = [proc EXCEPT ![c].stage = "locked"]
    /\ UNCHANGED <<mcpVars, pc, elapsed, outcome, result, failed, callVars,
                   scratch, derived>>

\* Scratch Log.append: the lock is held by another writer past the ceiling;
\* LockTimeoutError, nothing written
LockTimeout(c) ==
    /\ Alive(c)
    /\ proc[c].stage = "started"
    /\ EngineCommand(cmd[c]) = "write_scratch"
    /\ lock \notin {"free", c}
    /\ proc' = [proc EXCEPT ![c] = [stage |-> "exited", returncode |-> 1,
                                    stdout |-> <<>>, stderr |-> Diagnostic]]
    /\ UNCHANGED <<mcpVars, pc, elapsed, outcome, result, failed, callVars,
                   engineVars>>

\* Scratch Log.append: the record's text is written
WriteBody(c) ==
    /\ Alive(c)
    /\ proc[c].stage = "locked"
    /\ scratch' = AppendBody(scratch, CallId(c))
    /\ proc' = [proc EXCEPT ![c].stage = "body"]
    /\ UNCHANGED <<mcpVars, pc, elapsed, outcome, result, failed, callVars,
                   derived, lock>>

\* Scratch Log.append: the newline terminator commits the record
WriteNewline(c) ==
    /\ Alive(c)
    /\ proc[c].stage = "body"
    /\ scratch' = AppendNewline(scratch)
    /\ proc' = [proc EXCEPT ![c].stage = "committed"]
    /\ UNCHANGED <<mcpVars, pc, elapsed, outcome, result, failed, callVars,
                   derived, lock>>

\* Scratch Log.append: the lock is released after the flush
ReleaseLock(c) ==
    /\ Alive(c)
    /\ proc[c].stage = "committed"
    /\ lock' = "free"
    /\ proc' = [proc EXCEPT ![c].stage = "released"]
    /\ UNCHANGED <<mcpVars, pc, elapsed, outcome, result, failed, callVars,
                   scratch, derived>>

\* Ingestion Pipeline.ingest: a new atom is appended to the derived log
IngestAppend(c) ==
    /\ Alive(c)
    /\ proc[c].stage = "started"
    /\ EngineCommand(cmd[c]) = "ingest"
    /\ derived' = derived + 1
    /\ proc' = [proc EXCEPT ![c].stage = "appended"]
    /\ UNCHANGED <<mcpVars, pc, elapsed, outcome, result, failed, callVars,
                   scratch, lock>>

\* the command is done: result on standard output, exit status 0
ProcExit(c, out) ==
    /\ Alive(c)
    /\ \/ EngineCommand(cmd[c]) = "read" /\ proc[c].stage = "started"
       \/ EngineCommand(cmd[c]) = "ingest" /\ proc[c].stage \in {"started", "appended"}
       \/ EngineCommand(cmd[c]) = "write_scratch" /\ proc[c].stage = "released"
    /\ proc' = [proc EXCEPT ![c] = [stage |-> "exited", returncode |-> 0,
                                    stdout |-> out, stderr |-> <<>>]]
    /\ UNCHANGED <<mcpVars, pc, elapsed, outcome, result, failed, callVars,
                   engineVars>>

\* the command fails before it changes anything: non-zero exit status and a
\* diagnostic on standard error
ProcFail(c, rc, out) ==
    /\ Alive(c)
    /\ proc[c].stage = "started"
    /\ proc' = [proc EXCEPT ![c] = [stage |-> "exited", returncode |-> rc,
                                    stdout |-> out, stderr |-> Diagnostic]]
    /\ UNCHANGED <<mcpVars, pc, elapsed, outcome, result, failed, callVars,
                   engineVars>>

(* ------------------ _run_hyena: waiting and returning ------------------ *)

Min(a, b) == IF a < b THEN a ELSE b

\* time passes while subprocess.run waits
Tick(c) ==
    /\ pc[c] = "running"
    /\ elapsed[c] < TIMEOUT
    /\ elapsed' = [elapsed EXCEPT ![c] = Min(@ + TickStep, TIMEOUT)]
    /\ UNCHANGED <<mcpVars, pc, proc, outcome, result, failed, callVars,
                   engineVars>>

\* what the caller is told: an "Error (exit ..." string or a plain result
Report(res) == IF StartsWith(res, T_Error_exit) THEN "error" ELSE "ok"

\* the call is over: the command line, the arguments and the clock of
\* subprocess.run are locals of the finished call
Finished(c) ==
    /\ pc' = [pc EXCEPT ![c] = "returned"]
    /\ cmd' = [cmd EXCEPT ![c] = <<>>]
    /\ args' = [args EXCEPT ![c] = NoArgs]
    /\ elapsed' = [elapsed EXCEPT ![c] = 0]
    /\ UNCHANGED <<mcpVars, tool, ncalls, spawned, nwrites>>

\* mutant: the budget runs out and the call raises, the process is left alone
Timeout_no_kill(c) ==
    /\ pc[c] = "running"
    /\ proc[c].stage # "exited"
    /\ elapsed[c] = TIMEOUT
    /\ outcome' = [outcome EXCEPT ![c] = "raised"]
    /\ failed' = [failed EXCEPT ![c] = TRUE]
    /\ Finished(c)
    /\ UNCHANGED <<proc, result, engineVars>>

\* mutant: the budget runs out, the process is killed and the command is run
\* once more
Timeout_retry(c) ==
    /\ pc[c] = "running"
    /\ proc[c].stage # "exited"
    /\ elapsed[c] = TIMEOUT
    /\ spawned[c] < 2
    /\ proc' = [proc EXCEPT ![c] = [NoProc EXCEPT !.stage = "started"]]
    /\ lock' = IF lock = c THEN "free" ELSE lock
    /\ elapsed' = [elapsed EXCEPT ![c] = 0]
    /\ spawned' = [spawned EXCEPT ![c] = @ + 1]
    /\ UNCHANGED <<mcpVars, pc, outcome, result, failed, tool, args, cmd,
                   ncalls, nwrites, scratch, derived>>

\* subprocess.run(timeout=60): the budget runs out before the process has
\* exited; the process is killed and waited for (its lock goes with it) and
\* TimeoutExpired is raised out of the tool
Timeout(c) ==
    /\ pc[c] = "running"
    /\ proc[c].stage # "exited"
    /\ elapsed[c] = TIMEOUT
    /\ proc' = [proc EXCEPT ![c].stage = "killed"]
    /\ lock' = IF lock = c THEN "free" ELSE lock
    /\ outcome' = [outcome EXCEPT ![c] = "raised"]
    /\ failed' = [failed EXCEPT ![c] = TRUE]
    /\ Finished(c)
    /\ UNCHANGED <<result, scratch, derived>>

\* the process has exited: _run_hyena formats the exit and the tool returns it
Return(c) ==
    /\ pc[c] = "running"
    /\ proc[c].stage = "exited"
    /\ LET res == _run_hyena_result(proc[c].returncode, proc[c].stdout,
                                    proc[c].stderr)
       IN /\ result' = [result EXCEPT ![c] = res]
          /\ failed' = [failed EXCEPT ![c] = @ \/ Report(res) = "error"]
    /\ outcome' = [outcome EXCEPT ![c] = "value"]
    /\ Finished(c)
    /\ UNCHANGED <<proc, engineVars>>

(* --------------------------- specifications ---------------------------- *)

\* one server, one caller: every tool and resource, every argument value
SeqCallers == {"c1"}

Next ==
    \E c \in SeqCallers :
        \/ Initialize(c)
        \/ ListTools(c)
        \/ ListResources(c)
        \/ \E path \in Strs, max_lines \in IntArgs \cup {DefaultMaxLines} :
               hyena_read_context(c, path, max_lines)
        \/ \E scope_contains \in Strs, max_entries \in IntArgs \cup {DefaultDerivedMax} :
               hyena_read_derived(c, scope_contains, max_entries)
        \/ \E scope \in Strs : hyena_read_raw(c, scope)
        \/ \E max_entries \in IntArgs \cup {DefaultScratchMax} :
               hyena_read_scratch(c, max_entries)
        \/ \E query \in Strs, include_scratch \in BOOLEAN :
               hyena_search(c, query, include_scratch)
        \/ \E text \in Strs, kind \in Kinds : hyena_write_scratch(c, text, kind)
        \/ \E semantic_dedupe \in BOOLEAN, only_paths \in OnlyPaths :
               hyena_ingest(c, semantic_dedupe, only_paths)
        \/ resource_context(c)
        \/ resource_derived(c)
        \/ resource_scratch(c)
        \/ AcquireLock(c)
        \/ WriteBody(c)
        \/ WriteNewline(c)
        \/ ReleaseLock(c)
        \/ IngestAppend(c)
        \/ \E out \in Outs : ProcExit(c, out)
        \/ \E rc \in FailCodes, out \in Outs : ProcFail(c, rc, out)
        \/ Tick(c)
        \/ Timeout(c)
        \/ Return(c)

Spec == Init /\ [][Next]_vars

\* time passes, the budget is enforced and a finished process is noticed; a
\* hyena process itself is under no obligation to make progress
Fairness ==
    \A c \in SeqCallers :
        WF_vars(Tick(c)) /\ WF_vars(Timeout(c)) /\ WF_vars(Return(c))

FairSpec == Spec /\ Fairness

\* concurrent writers: every caller appends to the scratch log of one root
ConcTexts == {<<"a">>}

ConcOuts == {<<"o", "k", "\n">>}

ConcFailCodes == {1}

ConcNext ==
    \E c \in Callers :
        \/ Initialize(c)
        \/ \E text \in ConcTexts : hyena_write_scratch(c, text, T_note)
        \/ AcquireLock(c)
        \/ LockTimeout(c)
        \/ WriteBody(c)
        \/ WriteNewline(c)
        \/ ReleaseLock(c)
        \/ \E out \in ConcOuts : ProcExit(c, out)
        \/ \E rc \in ConcFailCodes, out \in ConcOuts : ProcFail(c, rc, out)
        \/ Tick(c)
        \/ Timeout(c)
        \/ Return(c)

ConcSpec == Init /\ [][ConcNext]_vars

\* _run_hyena's formatting alone: a read-side call is waiting on a process
\* that has exited, with any exit status and any standard output and error
RunCodes == {0, 1, 2, -9}

RunOuts == {<<>>, <<"\n">>, <<"o">>, <<"o", "\n">>, <<" ", "o">>}

RunErrs == {<<>>, <<" ">>, <<"e">>, <<"e", "\n">>, <<"\n", "e">>}

RunInit ==
    /\ session = [c \in Callers |-> IF c \in SeqCallers THEN "ready" ELSE "new"]
    /\ listed = [c \in Callers |-> NoListing]
    /\ pc = [c \in Callers |-> IF c \in SeqCallers THEN "running" ELSE "idle"]
    /\ tool = [c \in Callers |-> IF c \in SeqCallers THEN "hyena_read_raw" ELSE "none"]
    /\ args = [c \in Callers |-> NoArgs]
    /\ cmd = [c \in Callers |->
                 IF c \in SeqCallers
                 THEN _run_hyena_cmd(hyena_read_raw_args(<<>>), _root) ELSE <<>>]
    /\ \E rc \in RunCodes, out \in RunOuts, err \in RunErrs :
           proc = [c \in Callers |->
                      IF c \in SeqCallers
                      THEN [stage |-> "exited", returncode |-> rc,
                            stdout |-> out, stderr |-> err]
                      ELSE NoProc]
    /\ elapsed = [c \in Callers |-> 0]
    /\ outcome = [c \in Callers |-> "none"]
    /\ result = [c \in Callers |-> <<>>]
    /\ ncalls = [c \in Callers |-> IF c \in SeqCallers THEN 1 ELSE 0]
    /\ spawned = [c \in Callers |-> IF c \in SeqCallers THEN 1 ELSE 0]
    /\ failed = [c \in Callers |-> FALSE]
    /\ nwrites = 0
    /\ scratch = <<>>
    /\ derived = 0
    /\ lock = "free"

RunNext == \E c \in SeqCallers : Return(c)

RunSpec == RunInit /\ [][RunNext]_vars

(* ------------------------------ properties ----------------------------- *)

\* the arguments after <bin> --root <root>
ArgsOf(line) == SubSeq(line, 4, Len(line))

\* the values that follow each "--only" of a command line, in order
RECURSIVE OnlyValues(_)
OnlyValues(a) ==
    IF Len(a) < 2 THEN <<>>
    ELSE IF Head(a) = T_only THEN <<a[2]>> \o OnlyValues(SubSeq(a, 3, Len(a)))
    ELSE OnlyValues(Tail(a))

\* the positions of a command line that hold "--max" followed by a value
MaxPositions(a) == {i \in 1..(Len(a) - 1) : a[i] = T_max}

\* the calls whose record has reached the scratch log, one per record text
Entries(log) ==
    UNION {{<<i, j>> : j \in 1..Len(log[i].parts)} : i \in 1..Len(log)}

\* the lines of the log a call's record text is in
LinesOf(log, id) ==
    {i \in 1..Len(log) : \E j \in 1..Len(log[i].parts) : log[i].parts[j] = id}

\* C1: a call whose hyena process exits with a non-zero status returns a
\* value that starts with "Error (exit <status>)" and carries the diagnostic,
\* whatever standard output and standard error hold
C1_NonZeroExitIsError ==
    \A c \in Callers :
        (pc[c] = "returned" /\ outcome[c] = "value" /\ proc[c].returncode # 0)
        => /\ StartsWith(result[c],
                         T_Error_exit \o str(proc[c].returncode) \o <<")">>)
           /\ Contains(result[c], strip(proc[c].stderr))

\* C2: hyena_ingest with a non-empty only_paths issues one "--only P" for each
\* comma-separated entry, in order, P as the caller gave it, and so never an
\* ingest with no "--only"
C2_OnlyPathsRestrictIngest ==
    \A c \in Callers :
        (pc[c] = "running" /\ tool[c] = "hyena_ingest" /\ args[c].only_paths # <<>>)
        => /\ OnlyValues(ArgsOf(cmd[c])) = split(args[c].only_paths, ",")
           /\ OnlyValues(ArgsOf(cmd[c])) # <<>>

\* C3: every read of the derived or the scratch log, by tool or by resource,
\* passes "--max N" exactly once, N being the caller's max_entries or the
\* default cap, with or without a scope filter
C3_ReadsBounded ==
    \A c \in Callers :
        (pc[c] = "running" /\ tool[c] \in {"hyena_read_derived", "hyena_read_scratch",
                                       "hyena://derived", "hyena://scratch"})
        => LET a == ArgsOf(cmd[c])
           IN /\ Cardinality(MaxPositions(a)) = 1
              /\ \A i \in MaxPositions(a) : a[i + 1] = str(args[c].max_entries)
              /\ tool[c] = "hyena://derived" => args[c].max_entries = 100
              /\ tool[c] = "hyena://scratch" => args[c].max_entries = 50

\* a bounded read with a scope filter that looks like the bound's own option
C3_Witness ==
    \E c \in Callers :
        /\ pc[c] = "running"
        /\ tool[c] = "hyena_read_derived"
        /\ args[c].scope_contains = T_max
        /\ args[c].max_entries = 7

\* C4: hyena_search passes "--include-scratch" if and only if include_scratch
\* is true, and the query is the one argument after "search", unchanged
C4_IncludeScratchIff ==
    \A c \in Callers :
        (pc[c] = "running" /\ tool[c] = "hyena_search")
        => LET a == ArgsOf(cmd[c])
           IN /\ (\E i \in 1..Len(a) : a[i] = T_include_scratch)
                    <=> args[c].include_scratch
              /\ a[1] = T_search
              /\ a[2] = args[c].query

\* C5: a call that reported a failure (an error result or a raised timeout)
\* has left nothing of its record in the scratch log
C5_FailureLeavesLogUntouched ==
    \A c \in Callers :
        (/\ pc[c] = "returned"
         /\ tool[c] = "hyena_write_scratch"
         /\ outcome[c] = "raised" \/ Report(result[c]) = "error")
        => LinesOf(scratch, CallId(c)) = {}

C7_CallsComplete ==
    /\ \A c \in SeqCallers : (pc[c] = "running") ~> (pc[c] = "returned")
    /\ [](\A c \in Callers : elapsed[c] <= 60)
    /\ [](\A c \in Callers :
              pc[c] # "running" => proc[c].stage \in {"none", "exited", "killed"})

\* a call whose process never exited was cut off at the budget
C7_Witness ==
    \E c \in Callers :
        /\ pc[c] = "returned"
        /\ outcome[c] = "raised"
        /\ proc[c].stage = "killed"

\* C8: a read-side tool or resource issues only a read or a search command,
\* for all argument values, and the scratch and derived logs change only
\* while a hyena_write_scratch or hyena_ingest call is in progress
C8_ReadsAreReadOnly ==
    /\ [](\A c \in Callers :
              (pc[c] = "running" /\ tool[c] \in ReadTools)
              => /\ ArgsOf(cmd[c])[1] \in {T_read, T_search}
                 /\ EngineCommand(cmd[c]) = "read")
    /\ [][(scratch' # scratch \/ derived' # derived)
          => \E c \in Callers :
                 /\ pc[c] = "running"
                 /\ tool[c] \in {"hyena_write_scratch", "hyena_ingest"}]_vars

\* a search for the word "write" has run to its exit
C8_Witness ==
    \E c \in Callers :
        /\ pc[c] = "running"
        /\ proc[c].stage = "exited"
        /\ tool[c] = "hyena_search"
        /\ args[c].query = T_write

C10_OneProcessPerCall ==
    /\ \A c \in Callers :
           /\ pc[c] # "idle" => spawned[c] = 1
           /\ (pc[c] = "running" /\ EngineCommand(cmd[c]) = "write_scratch")
              => tool[c] = "hyena_write_scratch"
           /\ \A n \in 1..MaxCalls :
                  Cardinality({e \in Entries(scratch) :
                                   scratch[e[1]].parts[e[2]] = <<c, n>>}) <= 1
    /\ Cardinality(Entries(scratch)) <= nwrites

\* a write was cut off by the timeout after its record was committed, and
\* the record is there once
C10_Witness ==
    \E c \in Callers :
        /\ tool[c] = "hyena_write_scratch"
        /\ outcome[c] = "raised"
        /\ Cardinality(LinesOf(scratch, CallId(c))) = 1
        /\ nwrites = 1

=============================================================================
